---- MODULE Spec2Model ----
(***************************************************************************)
(* Ephemeral custom-variant provisioning and cleanup.                      *)
(*                                                                         *)
(*   - Reconciler: scripts/cleanupWorker.js (runCleanupPass,               *)
(*     runDailyFullScan, deleteTemporaryVariant, trackError, sendAlarm)    *)
(*   - Provisioner: the api.custom-product action with requestCache,       *)
(*     validatePrice, findExistingVariant and waitForVariantReady          *)
(*                                                                         *)
(* Time is in milliseconds, as Date.now() gives it.  Every await of the    *)
(* source is one action: the awaited call completes with one of its        *)
(* outcomes and the synchronous code up to the next await runs with it.    *)
(***************************************************************************)
EXTENDS Integers, Sequences, FiniteSets, TLC

(***************************************************************************)
(* Bounds of the model                                                     *)
(***************************************************************************)
MaxRecords == 2      \* EphemeralVariant rows created in the reconciler runs
MaxSweeps == 1       \* frequent sweeps started beside the daily full scan
MaxScans == 1        \* daily full scans started
MaxClockSteps == 2   \* clock advances in the reconciler runs
MaxFaults == 3       \* calls of collaborators (session store, catalog, store) that fail
MaxSweepsAlone == 2  \* frequent sweeps started when no daily full scan runs
MaxFaultsAlone == 4  \* failing calls when no daily full scan runs
NumRequests == 3     \* invocations of the Provisioner's action
FaultyRequests == 2  \* invocations made in the runs where calls fail
MaxElapses == 2      \* clock advances while requests are handled
MaxProvFaults == 2   \* failing calls while requests are handled
MaxInputFaults == 1  \* failing calls while requests with arbitrary fields are handled
SmallBurst == 3      \* entries of the dedup map in a small burst of requests
CapMargin == 2       \* how far below its cap the dedup map of a large burst starts

(***************************************************************************)
(* Program constants                                                       *)
(***************************************************************************)
NULL == -1                                   \* a nullable DATETIME that is null
CLEANUP_INTERVAL_MS == 120 * 60 * 1000
ERROR_THRESHOLD == 3
ERROR_WINDOW_MS == 5 * 60 * 1000
SCHEDULED_DELETION_MS == 2 * 60 * 60 * 1000   \* Date.now() + 2h at creation
DAILY_AGE_HOURS == 24
MS_PER_HOUR == 1000 * 60 * 60
CACHE_DURATION == 5000                       \* ms an entry of requestCache lives
MAX_CACHE_SIZE == 1000
DEDUP_WINDOW_MS == 3000                      \* Date.now() - timestamp < 3000
MIN_PRICE == 10                              \* 0.01, in thousandths
MAX_PRICE == 999999990                       \* 999999.99, in thousandths
maxRetries == 8                              \* waitForVariantReady's polling reads
ElapseMs == DEDUP_WINDOW_MS \div 2            \* the step of the clock between requests

VARIABLES
    now,               \* the wall clock, Date.now()
    temporaryProduct,  \* the temporary_products table: sequence of rows, id = index
    variants,          \* the catalog: sequence of variants, id = index
    cleanupLog,        \* the cleanup_logs table: action |-> number of entries
    recentErrors,      \* cleanupWorker.js: let recentErrors = [] (timestamps)
    pendingAlarms,     \* sendAlarm calls whose cleanupLog.create is in flight
    pc,                \* where runCleanupPass / runDailyFullScan stand
    batch,             \* toDelete / allRecords: the snapshot, row ids in order
    idx,               \* position of the for-of loop in the snapshot
    stats,             \* stats of the pass: checked, deleted, errors
    attempted,         \* rows deleteTemporaryVariant was called for in this run
    runs,              \* runs the timers may still start, per loop
    clockSteps,        \* clock advances so far
    faults,            \* calls of collaborators that may still fail
    requestCache,      \* part_000: const requestCache = new Map(), cacheKey -> timestamp
    request            \* the invocations of the Provisioner's action and their locals

vars == <<now, temporaryProduct, variants, cleanupLog, recentErrors, pendingAlarms,
          pc, batch, idx, stats, attempted, runs, clockSteps, faults,
          requestCache, request>>

\* what only the Provisioner writes, and what only the Reconciler writes
provVars == <<requestCache, request>>
reconVars == <<recentErrors, pendingAlarms, pc, batch, idx, stats, attempted, runs>>

Procs == {"sweep", "daily"}
LogActions == {"cleanup_run", "daily_scan", "deleted", "error", "variant_created", "alarm"}

RowIds == DOMAIN temporaryProduct

(***************************************************************************)
(* Form fields are texts: sequences of characters                          *)
(***************************************************************************)
Digits == <<"0", "1", "2", "3", "4", "5", "6", "7", "8", "9">>

IsDigit(c) == \E d \in 1..Len(Digits) : Digits[d] = c

DigitValue(c) == (CHOOSE d \in 1..Len(Digits) : Digits[d] = c) - 1

\* the longest prefix of s made of digits
RECURSIVE LeadingDigits(_)
LeadingDigits(s) ==
    IF s = <<>> \/ ~IsDigit(Head(s))
    THEN <<>>
    ELSE <<Head(s)>> \o LeadingDigits(Tail(s))

\* the number a sequence of digits writes
RECURSIVE NumberOf(_)
NumberOf(ds) ==
    IF ds = <<>>
    THEN 0
    ELSE NumberOf(SubSeq(ds, 1, Len(ds) - 1)) * 10 + DigitValue(ds[Len(ds)])

IsNegative(s) == s # <<>> /\ Head(s) = "-"

Unsigned(s) == IF s # <<>> /\ Head(s) \in {"-", "+"} THEN Tail(s) ELSE s

Signed(s, n) == IF IsNegative(s) THEN 0 - n ELSE n

\* parseInt(String(x), 10): an optional sign and the digits up to the first other
\* character; NaN when there is no digit
parseIntIsNaN(s) == LeadingDigits(Unsigned(s)) = <<>>

parseInt(s) == Signed(s, NumberOf(LeadingDigits(Unsigned(s))))

\* parseFloat(String(x)): an optional sign, digits, and a point with digits; NaN when
\* there is no digit.  The value is kept in thousandths, exact for the texts of the
\* model, which have at most three digits after the point.
IntegerDigits(s) == LeadingDigits(Unsigned(s))

AfterInteger(s) == SubSeq(Unsigned(s), Len(IntegerDigits(s)) + 1, Len(Unsigned(s)))

FractionDigits(s) ==
    IF AfterInteger(s) # <<>> /\ Head(AfterInteger(s)) = "."
    THEN LeadingDigits(Tail(AfterInteger(s)))
    ELSE <<>>

Thousandths(fr) == NumberOf(SubSeq(fr \o <<"0", "0", "0">>, 1, 3))

parseFloatIsNaN(s) == IntegerDigits(s) = <<>> /\ FractionDigits(s) = <<>>

parseFloat(s) ==
    Signed(s, NumberOf(IntegerDigits(s)) * 1000 + Thousandths(FractionDigits(s)))

\* !x for a form field: formData.get gave null or the empty string
Missing(s) == s = <<>>

(***************************************************************************)
(* validatePrice                                                           *)
(***************************************************************************)
\* Math.round(numPrice * 100), for numPrice in thousandths: the hundredths nearest to
\* it.  For a value half way between two hundredths the binary product numPrice * 100
\* lies on either side of the half (1.005 * 100 is 100.49999999999999, 0.015 * 100 is
\* 1.5), so both neighbours are results the function can give.
RoundedHundredths(m) ==
    IF m % 10 = 5 THEN {m \div 10, m \div 10 + 1} ELSE {(m + 5) \div 10}

\* validatePrice without its check against MAX_PRICE
validatePrice_NoMaximum(price) ==
    IF parseFloatIsNaN(price)
    THEN [error |-> "format", values |-> {}]
    ELSE IF parseFloat(price) < MIN_PRICE
         THEN [error |-> "minimum", values |-> {}]
         ELSE [error |-> "", values |-> RoundedHundredths(parseFloat(price))]

\* validatePrice(price): the error it throws ("" when it returns) and the values it
\* can return, in hundredths
validatePrice(price) ==
    IF parseFloatIsNaN(price)
    THEN [error |-> "format", values |-> {}]
    ELSE IF parseFloat(price) < MIN_PRICE
         THEN [error |-> "minimum", values |-> {}]
         ELSE IF parseFloat(price) > MAX_PRICE
              THEN [error |-> "maximum", values |-> {}]
              ELSE [error |-> "", values |-> RoundedHundredths(parseFloat(price))]

(***************************************************************************)
(* requestCache                                                            *)
(***************************************************************************)
Restrict(f, S) == [k \in S |-> f[k]]

EmptyCache == [k \in {} |-> 0]

\* const cacheKey = `${boy}-${en}-${materyal}`
cacheKey(f) == f.boy \o <<"-">> \o f.en \o <<"-">> \o f.materyal

\* requestCache.set(cacheKey, { timestamp })
CacheSet(cache, k, t) ==
    [x \in DOMAIN cache \cup {k} |-> IF x = k THEN t ELSE cache[x]]

\* requestCache.delete(cacheKey)
CacheDelete(cache, k) == Restrict(cache, DOMAIN cache \ {k})

\* cleanupCache, second loop: the n entries with the oldest timestamps go
RECURSIVE EvictOldest(_, _)
EvictOldest(cache, n) ==
    IF n = 0 \/ DOMAIN cache = {}
    THEN cache
    ELSE LET k == CHOOSE k \in DOMAIN cache : \A j \in DOMAIN cache : cache[k] <= cache[j]
         IN  EvictOldest(CacheDelete(cache, k), n - 1)

\* a cleanupCache that drops the expired entries and never evicts
cleanupCache_NoEviction(cache, t) ==
    Restrict(cache, {k \in DOMAIN cache : ~(t - cache[k] > CACHE_DURATION)})

\* cleanupCache() at time t
cleanupCache(cache, t) ==
    LET live == Restrict(cache, {k \in DOMAIN cache : ~(t - cache[k] > CACHE_DURATION)})
    IN  IF Cardinality(DOMAIN live) > MAX_CACHE_SIZE
        THEN EvictOldest(live, (MAX_CACHE_SIZE * 2) \div 10)
        ELSE live

(***************************************************************************)
(* Forms                                                                   *)
(***************************************************************************)
Form(base, boy, en, materyal, price) ==
    [baseVariantId |-> base, boy |-> boy, en |-> en, materyal |-> materyal,
     calculatedPrice |-> price]

\* option1, option2, option3 of the variant a form asks for
Options(f) == <<f.boy, f.en, f.materyal>>

\* the id of the product's base variant, as the storefront sends it
CatalogBaseVariant == <<"7">>

Pamuk == <<"p", "a", "m", "u", "k">>

\* 100 x 50 cm of pamuk for 19.999, which validatePrice rounds to 20.00
SampleForm ==
    Form(CatalogBaseVariant, <<"1", "0", "0">>, <<"5", "0">>, Pamuk,
         <<"1", "9", ".", "9", "9", "9">>)

\* the same frame for 30
OtherPriceForm == [SampleForm EXCEPT !.calculatedPrice = <<"3", "0">>]

(***************************************************************************)
(* Store queries                                                           *)
(***************************************************************************)
\* the where of runCleanupPass without scheduledDeletionAt: { lte: now }
SweepWhere_NoTimeFilter(t) ==
    {i \in RowIds : /\ temporaryProduct[i].deletedAt = NULL
                    /\ temporaryProduct[i].isOrdered = FALSE}

\* the where of runCleanupPass without isOrdered: false
SweepWhere_NoOrderedFilter(t) ==
    {i \in RowIds : /\ temporaryProduct[i].scheduledDeletionAt <= t
                    /\ temporaryProduct[i].deletedAt = NULL}

\* runCleanupPass: where { scheduledDeletionAt <= now, deletedAt null, isOrdered false }
SweepWhere(t) ==
    {i \in RowIds : /\ temporaryProduct[i].scheduledDeletionAt <= t
                    /\ temporaryProduct[i].deletedAt = NULL
                    /\ temporaryProduct[i].isOrdered = FALSE}

\* runDailyFullScan: where { deletedAt null }
DailyWhere == {i \in RowIds : temporaryProduct[i].deletedAt = NULL}

Perms(S) ==
    {s \in [1..Cardinality(S) -> S] :
        \A i, j \in 1..Cardinality(S) : i # j => s[i] # s[j]}

\* the findMany of runCleanupPass without its orderBy
OrderByScheduledAsc_NoOrderBy(S) == Perms(S)

\* orderBy scheduledDeletionAt asc: rows with equal keys come in any order
OrderByScheduledAsc(S) ==
    {s \in Perms(S) :
        \A i \in 1..(Cardinality(S) - 1) :
            temporaryProduct[s[i]].scheduledDeletionAt
                <= temporaryProduct[s[i + 1]].scheduledDeletionAt}

\* no orderBy: the store returns the rows in the order it likes
AnyOrder(S) == Perms(S)

(***************************************************************************)
(* Collaborator calls: a call succeeds, or fails while the budget lasts     *)
(***************************************************************************)
Succeeds == faults' = faults
Fails == faults > 0 /\ faults' = faults - 1

(***************************************************************************)
(* Error/Alarm tracker                                                     *)
(***************************************************************************)
\* recentErrors.push(errorLog); recentErrors = recentErrors.filter(e => e.timestamp > cutoff)
trackErrorLog(errs, t) ==
    SelectSeq(Append(errs, t), LAMBDA e : e > t - ERROR_WINDOW_MS)

\* an alarm raised only as the window reaches the threshold, not while it stays above
alarmRaised_EdgeTriggered(errs, t) == Len(trackErrorLog(errs, t)) = ERROR_THRESHOLD

\* if (recentErrors.length >= ERROR_THRESHOLD) sendAlarm(...)
alarmRaised(errs, t) == Len(trackErrorLog(errs, t)) >= ERROR_THRESHOLD

\* trackError(err, context): the tracker's state after the call
TrackError ==
    /\ recentErrors' = trackErrorLog(recentErrors, now)
    /\ pendingAlarms' = pendingAlarms + (IF alarmRaised(recentErrors, now) THEN 1 ELSE 0)

\* logCleanupAction: cleanupLog.create inside try/catch, a failure is swallowed
LogWritten(action) ==
    \/ cleanupLog' = [cleanupLog EXCEPT ![action] = @ + 1] /\ Succeeds
    \/ cleanupLog' = cleanupLog /\ Fails

\* sendAlarm: the awaited cleanupLog.create completes; a failure is only logged
SendAlarm ==
    /\ pendingAlarms > 0
    /\ pendingAlarms' = pendingAlarms - 1
    /\ LogWritten("alarm")
    /\ UNCHANGED <<now, temporaryProduct, variants, recentErrors, pc, batch, idx,
                   stats, attempted, runs, clockSteps>>
    /\ UNCHANGED provVars

(***************************************************************************)
(* Rows and variants                                                       *)
(***************************************************************************)
\* prisma.temporaryProduct.create in the creation path: the columns of the row
NewRow(variantId, boy, en, materyal, price, area) ==
    [variantId |-> variantId,
     createdAt |-> now,
     scheduledDeletionAt |-> now + SCHEDULED_DELETION_MS,
     deletedAt |-> NULL,
     isOrdered |-> FALSE,
     cleanupAttempts |-> 0,
     lastCleanupError |-> FALSE,
     boy |-> boy, en |-> en, materyal |-> materyal,
     calculatedPrice |-> price, area |-> area]

\* a variant of the catalog: option1..3, the price the last write asked for and the
\* price a read shows (null or 0 while the catalog has not set it yet)
NewVariant(options, requested, price) ==
    [alive |-> TRUE, options |-> options, requested |-> requested, price |-> price]

Min(S) == CHOOSE x \in S : \A y \in S : x <= y

(***************************************************************************)
(* The loops of the Reconciler                                             *)
(***************************************************************************)
ZeroStats == [checked |-> 0, deleted |-> 0, errors |-> 0]

Item(p) == batch[p][idx[p]]

\* the locals of the running pass
SetLoop(p, l, b, k, st, att) ==
    /\ pc' = [pc EXCEPT ![p] = l]
    /\ batch' = [batch EXCEPT ![p] = b]
    /\ idx' = [idx EXCEPT ![p] = k]
    /\ stats' = [stats EXCEPT ![p] = st]
    /\ attempted' = [attempted EXCEPT ![p] = att]

\* the pass stays where it is in its snapshot and waits for the next call
Goto(p, l) == SetLoop(p, l, batch[p], idx[p], stats[p], attempted[p])

\* the pass returns: its locals are gone
Return(p) == SetLoop(p, "idle", <<>>, 0, ZeroStats, {})

\* an age test on the deletion deadline instead of the creation time
IsOld_ByDeadline(i) == now >= temporaryProduct[i].scheduledDeletionAt

\* runDailyFullScan: ageHours >= 24, with Date.now() read when the loop reaches the item
IsOld(i) == now - temporaryProduct[i].createdAt >= DAILY_AGE_HOURS * MS_PER_HOUR

\* positions after k whose item runDailyFullScan calls deleteTemporaryVariant for
NextOld(b, k) == {j \in (k + 1)..Len(b) : IsOld(b[j])}

\* the for-of loop moves past position k of snapshot b and runs to its next await:
\* deleteTemporaryVariant's loadSession for the next item, or the summary log
Advance(p, b, k, st, att) ==
    IF p = "sweep"
    THEN IF k < Len(b)
         THEN SetLoop(p, "load", b, k + 1, st, att \cup {b[k + 1]})
         ELSE SetLoop(p, "summary", b, k, st, att)
    ELSE IF NextOld(b, k) # {}
         THEN LET j == Min(NextOld(b, k))
              IN  SetLoop(p, "load", b, j, st, att \cup {b[j]})
         ELSE SetLoop(p, "summary", b, Len(b), st, att)

\* runCleanupPass up to its first await after findMany
SweepStart ==
    /\ pc["sweep"] = "idle"
    /\ runs["sweep"] > 0
    /\ runs' = [runs EXCEPT !["sweep"] = @ - 1]
    /\ \/ \* findMany rejects: the top-level catch tracks the error, the pass returns
          /\ Fails
          /\ TrackError
          /\ Return("sweep")
       \/ \E b \in OrderByScheduledAsc(SweepWhere(now)) :
             /\ Succeeds
             /\ IF Len(b) = 0
                THEN SetLoop("sweep", "log_empty", b, 0, ZeroStats, {})
                ELSE Advance("sweep", b, 0, [ZeroStats EXCEPT !.checked = Len(b)], {})
             /\ UNCHANGED <<recentErrors, pendingAlarms>>
    /\ UNCHANGED <<now, temporaryProduct, variants, cleanupLog, clockSteps>>
    /\ UNCHANGED provVars

\* runDailyFullScan up to its first await after findMany
DailyStart ==
    /\ pc["daily"] = "idle"
    /\ runs["daily"] > 0
    /\ runs' = [runs EXCEPT !["daily"] = @ - 1]
    /\ \/ /\ Fails
          /\ TrackError
          /\ Return("daily")
       \/ \E b \in AnyOrder(DailyWhere) :
             /\ Succeeds
             /\ Advance("daily", b, 0, [ZeroStats EXCEPT !.checked = Len(b)], {})
             /\ UNCHANGED <<recentErrors, pendingAlarms>>
    /\ UNCHANGED <<now, temporaryProduct, variants, cleanupLog, clockSteps>>
    /\ UNCHANGED provVars

\* deleteTemporaryVariant threw for the current item: the per-item catch of the caller.
\* runCleanupPass: stats.errors++, trackError, then await the cleanupAttempts update.
\* runDailyFullScan: errors++ and on to the next item.
ItemFailed(p) ==
    IF p = "sweep"
    THEN /\ TrackError
         /\ SetLoop(p, "err_update", batch[p], idx[p],
                    [stats[p] EXCEPT !.errors = @ + 1], attempted[p])
    ELSE /\ Advance(p, batch[p], idx[p],
                    [stats[p] EXCEPT !.errors = @ + 1], attempted[p])
         /\ UNCHANGED <<recentErrors, pendingAlarms>>

\* deleteTemporaryVariant: await sessionStorage.loadSession(item.sessionId)
LoadSession(p) ==
    /\ pc[p] = "load"
    /\ \/ /\ Succeeds
          /\ Goto(p, "get")
          /\ UNCHANGED <<recentErrors, pendingAlarms>>
       \/ /\ Fails                 \* no session: throw "Admin session not found"
          /\ ItemFailed(p)
    /\ UNCHANGED <<now, temporaryProduct, variants, cleanupLog, runs, clockSteps>>
    /\ UNCHANGED provVars

\* admin.get whose 404 is rethrown like any other failure
GetVariant_Rethrows404(p) ==
    /\ pc[p] = "get"
    /\ LET v == temporaryProduct[Item(p)].variantId
       IN  \/ /\ variants[v].alive
              /\ Succeeds
              /\ Goto(p, "delete")
              /\ UNCHANGED <<recentErrors, pendingAlarms>>
           \/ /\ ~variants[v].alive
              /\ Succeeds
              /\ ItemFailed(p)
           \/ /\ Fails
              /\ ItemFailed(p)
    /\ UNCHANGED <<now, temporaryProduct, variants, cleanupLog, runs, clockSteps>>
    /\ UNCHANGED provVars

\* deleteTemporaryVariant: await admin.get(variants/<id>)
GetVariant(p) ==
    /\ pc[p] = "get"
    /\ LET v == temporaryProduct[Item(p)].variantId
       IN  \/ /\ variants[v].alive
              /\ Succeeds
              /\ Goto(p, "delete")
              /\ UNCHANGED <<recentErrors, pendingAlarms>>
           \/ /\ ~variants[v].alive      \* 404: swallowed, on to the store update
              /\ Succeeds
              /\ Goto(p, "mark")
              /\ UNCHANGED <<recentErrors, pendingAlarms>>
           \/ /\ Fails                   \* any other failure is rethrown
              /\ ItemFailed(p)
    /\ UNCHANGED <<now, temporaryProduct, variants, cleanupLog, runs, clockSteps>>
    /\ UNCHANGED provVars

\* an admin.delete whose every error is swallowed, not only the 404
DeleteVariant_SwallowsEveryError(p) ==
    /\ pc[p] = "delete"
    /\ LET v == temporaryProduct[Item(p)].variantId
       IN  \/ /\ variants[v].alive
              /\ Succeeds
              /\ variants' = [variants EXCEPT ![v].alive = FALSE]
              /\ Goto(p, "mark")
              /\ UNCHANGED <<recentErrors, pendingAlarms>>
           \/ /\ ~variants[v].alive
              /\ Succeeds
              /\ Goto(p, "mark")
              /\ UNCHANGED <<variants, recentErrors, pendingAlarms>>
           \/ /\ Fails
              /\ Goto(p, "mark")
              /\ UNCHANGED <<variants, recentErrors, pendingAlarms>>
    /\ UNCHANGED <<now, temporaryProduct, cleanupLog, runs, clockSteps>>
    /\ UNCHANGED provVars

\* deleteTemporaryVariant: await admin.delete(products/<pid>/variants/<id>)
DeleteVariant(p) ==
    /\ pc[p] = "delete"
    /\ LET v == temporaryProduct[Item(p)].variantId
       IN  \/ /\ variants[v].alive
              /\ Succeeds
              /\ variants' = [variants EXCEPT ![v].alive = FALSE]
              /\ Goto(p, "mark")
              /\ UNCHANGED <<recentErrors, pendingAlarms>>
           \/ /\ ~variants[v].alive      \* 404: swallowed
              /\ Succeeds
              /\ Goto(p, "mark")
              /\ UNCHANGED <<variants, recentErrors, pendingAlarms>>
           \/ /\ Fails
              /\ ItemFailed(p)
              /\ UNCHANGED variants
    /\ UNCHANGED <<now, temporaryProduct, cleanupLog, runs, clockSteps>>
    /\ UNCHANGED provVars

\* an update that also clears the error bookkeeping of the record
WithDeletedAt_ResetsAttempts(i) ==
    [temporaryProduct EXCEPT ![i].deletedAt = now, ![i].cleanupAttempts = 0]

\* deleteTemporaryVariant: data: { deletedAt: new Date() }
WithDeletedAt(i) == [temporaryProduct EXCEPT ![i].deletedAt = now]

\* deleteTemporaryVariant: await prisma.temporaryProduct.update(deletedAt) resolves, and
\* the caller's code after the call returned
MarkDeletedOk(p) ==
    /\ pc[p] = "mark"
    /\ Succeeds
    /\ temporaryProduct' = WithDeletedAt(Item(p))
    /\ IF p = "sweep"
       THEN SetLoop(p, "log_deleted", batch[p], idx[p],
                    [stats[p] EXCEPT !.deleted = @ + 1], attempted[p])
       ELSE Advance(p, batch[p], idx[p],
                    [stats[p] EXCEPT !.deleted = @ + 1], attempted[p])
    /\ UNCHANGED <<now, variants, cleanupLog, recentErrors, pendingAlarms, runs, clockSteps>>
    /\ UNCHANGED provVars

\* deleteTemporaryVariant: the update of deletedAt rejects
MarkDeletedFailed(p) ==
    /\ pc[p] = "mark"
    /\ Fails
    /\ ItemFailed(p)
    /\ UNCHANGED <<now, temporaryProduct, variants, cleanupLog, runs, clockSteps>>
    /\ UNCHANGED provVars

MarkDeleted(p) == MarkDeletedOk(p) \/ MarkDeletedFailed(p)

\* runCleanupPass: await logCleanupAction("deleted", ...)
LogDeleted ==
    /\ pc["sweep"] = "log_deleted"
    /\ LogWritten("deleted")
    /\ Advance("sweep", batch["sweep"], idx["sweep"], stats["sweep"], attempted["sweep"])
    /\ UNCHANGED <<now, temporaryProduct, variants, recentErrors, pendingAlarms,
                   runs, clockSteps>>
    /\ UNCHANGED provVars

\* runCleanupPass, per-item catch: data: { cleanupAttempts: { increment: 1 }, lastCleanupError }
WithAttempt(i) ==
    [temporaryProduct EXCEPT ![i].cleanupAttempts = @ + 1, ![i].lastCleanupError = TRUE]

\* a cleanupAttempts update whose rejection ends the pass without reaching the tracker
UpdateAttempts_Untracked ==
    /\ pc["sweep"] = "err_update"
    /\ \/ /\ Succeeds
          /\ temporaryProduct' = WithAttempt(Item("sweep"))
          /\ Goto("sweep", "err_log")
          /\ UNCHANGED <<recentErrors, pendingAlarms>>
       \/ /\ Fails
          /\ Return("sweep")
          /\ UNCHANGED <<temporaryProduct, recentErrors, pendingAlarms>>
    /\ UNCHANGED <<now, variants, cleanupLog, runs, clockSteps>>
    /\ UNCHANGED provVars

\* runCleanupPass, per-item catch: await prisma.temporaryProduct.update(cleanupAttempts).
\* The await stands in the catch block: when it rejects, the error leaves the for-of
\* loop and reaches the top-level catch, which tracks it, and the pass returns.
UpdateAttempts ==
    /\ pc["sweep"] = "err_update"
    /\ \/ /\ Succeeds
          /\ temporaryProduct' = WithAttempt(Item("sweep"))
          /\ Goto("sweep", "err_log")
          /\ UNCHANGED <<recentErrors, pendingAlarms>>
       \/ /\ Fails
          /\ TrackError
          /\ Return("sweep")
          /\ UNCHANGED temporaryProduct
    /\ UNCHANGED <<now, variants, cleanupLog, runs, clockSteps>>
    /\ UNCHANGED provVars

\* runCleanupPass, per-item catch: await logCleanupAction("error", ...)
LogError ==
    /\ pc["sweep"] = "err_log"
    /\ LogWritten("error")
    /\ Advance("sweep", batch["sweep"], idx["sweep"], stats["sweep"], attempted["sweep"])
    /\ UNCHANGED <<now, temporaryProduct, variants, recentErrors, pendingAlarms,
                   runs, clockSteps>>
    /\ UNCHANGED provVars

\* the summary entry of a pass, cleanup_run ("No items to delete" or the counts) or
\* daily_scan, after which the pass returns
LogSummary(p) ==
    /\ pc[p] \in {"log_empty", "summary"}
    /\ LogWritten(IF p = "sweep" THEN "cleanup_run" ELSE "daily_scan")
    /\ Return(p)
    /\ UNCHANGED <<now, temporaryProduct, variants, recentErrors, pendingAlarms,
                   runs, clockSteps>>
    /\ UNCHANGED provVars

(***************************************************************************)
(* The environment of the Reconciler                                       *)
(***************************************************************************)
\* the creation path of the Provisioner as the Reconciler sees it: a new catalog
\* variant and its temporary_products row
CreateTemporaryProduct ==
    /\ Len(temporaryProduct) < MaxRecords
    /\ variants' = Append(variants, NewVariant(Options(SampleForm), 2000, 2000))
    /\ temporaryProduct' =
          Append(temporaryProduct,
                 NewRow(Len(variants) + 1, parseInt(SampleForm.boy), parseInt(SampleForm.en),
                        SampleForm.materyal, 2000,
                        parseInt(SampleForm.boy) * parseInt(SampleForm.en)))
    /\ UNCHANGED <<now, cleanupLog, recentErrors, pendingAlarms, pc, batch, idx,
                   stats, attempted, runs, clockSteps, faults>>
    /\ UNCHANGED provVars

\* the order-placement collaborator: a live record becomes ordered
PlaceOrder(i) ==
    /\ temporaryProduct[i].deletedAt = NULL
    /\ ~temporaryProduct[i].isOrdered
    /\ temporaryProduct' = [temporaryProduct EXCEPT ![i].isOrdered = TRUE]
    /\ UNCHANGED <<now, variants, cleanupLog, recentErrors, pendingAlarms, pc, batch,
                   idx, stats, attempted, runs, clockSteps, faults>>
    /\ UNCHANGED provVars

\* the instants the clock visits: 0h, 2h, 24h, 26h, 48h, 50h, ... so that a record
\* created at one instant is past its scheduledDeletionAt at the next, and 24 hours
\* old two instants later
TimeAt(k) ==
    (k \div 2) * DAILY_AGE_HOURS * MS_PER_HOUR + (k % 2) * SCHEDULED_DELETION_MS

\* time passes
Tick ==
    /\ clockSteps < MaxClockSteps
    /\ clockSteps' = clockSteps + 1
    /\ now' = TimeAt(clockSteps + 1)
    /\ UNCHANGED <<temporaryProduct, variants, cleanupLog, recentErrors, pendingAlarms,
                   pc, batch, idx, stats, attempted, runs, faults>>
    /\ UNCHANGED provVars

(***************************************************************************)
(* The Provisioner: the action of the custom-product route                 *)
(*                                                                         *)
(* The SKU, the weight and the inventory fields of a created variant are   *)
(* sent to the catalog and not read again; the catalog of the model keeps  *)
(* the options and the price.                                              *)
(***************************************************************************)
Requests == 1..NumRequests

NoVariant == [id |-> 0, price |-> NULL]

NoResponse ==
    [status |-> 0, errorType |-> "", variantId |-> 0, price |-> NULL,
     usedExisting |-> FALSE]

\* new Response(JSON.stringify({ success: false, errorType }), { status })
ErrorResponse(status, errorType) ==
    [status |-> status, errorType |-> errorType, variantId |-> 0, price |-> NULL,
     usedExisting |-> FALSE]

\* x.price || calculatedPrice
PriceOr(price, calculatedPrice) == IF price = NULL THEN calculatedPrice ELSE price

\* new Response(JSON.stringify({ success: true, variant: { id, price }, usedExisting }))
SuccessResponse(variant, calculatedPrice, usedExisting) ==
    [status |-> 200, errorType |-> "", variantId |-> variant.id,
     price |-> PriceOr(variant.price, calculatedPrice), usedExisting |-> usedExisting]

\* an invocation that has not been made, with the form it will carry
NewRequest(f) ==
    [pc |-> "new", form |-> f, calculatedPrice |-> 0, existingVariant |-> NoVariant,
     newVariant |-> NoVariant, i |-> 0, admittedAt |-> NULL, called |-> FALSE,
     response |-> NoResponse]

\* a slot of Requests no invocation uses
NoRequest == [NewRequest(SampleForm) EXCEPT !.pc = "absent"]

\* the invocation goes on to its next await
Become(r, rec) == request' = [request EXCEPT ![r] = rec]

At(r, l) == Become(r, [request[r] EXCEPT !.pc = l])

\* the invocation returns resp: its locals are gone
Returns(r, resp) ==
    Become(r, [request[r] EXCEPT !.pc = "done", !.response = resp,
                                 !.existingVariant = NoVariant, !.newVariant = NoVariant,
                                 !.i = 0, !.admittedAt = NULL])

\* the invocation waits for a call that never answers and that no timer bounds
Hangs(r) == At(r, "hung")

\* what a catalog call does: it answers, it fails, or it never responds
Outcomes == {"ok", "error", "silent"}

Outcome(o) == IF o = "ok" THEN Succeeds ELSE Fails

\* withTimeout(promise): a call that never responds is rejected when the timer fires
withTimeout(o) == IF o = "silent" THEN "timeout" ELSE o

\* the variant as a read of the catalog shows it
Read(v) == [id |-> v, price |-> variants[v].price]

\* allVariants.find(option1, option2, option3 match): the variants of the product
\* that match, of which find takes the first
Matching(f) == {v \in DOMAIN variants : variants[v].alive /\ variants[v].options = Options(f)}

\* the catch of the base-variant read and of the creation: 504 timeout or the error
FailureResponse(res, status, errorType) ==
    IF res = "timeout" THEN ErrorResponse(504, "timeout") ELSE ErrorResponse(status, errorType)

\* authenticate, loadSession, formData and the synchronous code after them: the
\* missing-field check, validatePrice, cleanupCache, the duplicate check,
\* requestCache.set, and the base-variant read being issued
Arrive(r) ==
    /\ request[r].pc = "new"
    /\ LET f == request[r].form
           checked == validatePrice(f.calculatedPrice)
           cache == cleanupCache(requestCache, now)
       IN  \/ /\ Fails              \* loadSession finds no admin session
              /\ Returns(r, ErrorResponse(401, "session_not_found"))
              /\ UNCHANGED requestCache
           \/ /\ Fails              \* authenticate or formData rejects: top-level catch
              /\ Returns(r, ErrorResponse(500, "system_error"))
              /\ UNCHANGED requestCache
           \/ /\ Succeeds
              /\ \/ Missing(f.baseVariantId) \/ Missing(f.boy) \/ Missing(f.en)
                 \/ Missing(f.materyal) \/ Missing(f.calculatedPrice)
              /\ Returns(r, ErrorResponse(400, "validation"))
              /\ UNCHANGED requestCache
           \/ /\ Succeeds
              /\ ~Missing(f.baseVariantId) /\ ~Missing(f.boy) /\ ~Missing(f.en)
              /\ ~Missing(f.materyal) /\ ~Missing(f.calculatedPrice)
              /\ IF checked.error # ""
                 THEN /\ Returns(r, ErrorResponse(400, "invalid_price"))
                      /\ UNCHANGED requestCache
                 ELSE IF /\ cacheKey(f) \in DOMAIN cache
                         /\ now - cache[cacheKey(f)] < DEDUP_WINDOW_MS
                      THEN /\ Returns(r, ErrorResponse(429, "duplicate"))
                           /\ requestCache' = cache
                      ELSE \E price \in checked.values :
                              /\ requestCache' = CacheSet(cache, cacheKey(f), now)
                              /\ Become(r, [request[r] EXCEPT
                                               !.pc = "base", !.calculatedPrice = price,
                                               !.admittedAt = now, !.called = TRUE])
    /\ UNCHANGED <<now, temporaryProduct, variants, cleanupLog, clockSteps>>
    /\ UNCHANGED reconVars

\* await withTimeout(admin.get(variants/<baseVariantId>)) and its catch
BaseVariantRead(r) ==
    /\ request[r].pc = "base"
    /\ \E o \in Outcomes :
          /\ Outcome(o)
          /\ LET f == request[r].form
                 res == IF o = "ok" /\ f.baseVariantId # CatalogBaseVariant
                        THEN "error"            \* 404, or a body without variant
                        ELSE withTimeout(o)
             IN  IF res = "ok"
                 THEN At(r, "find") /\ UNCHANGED requestCache
                 ELSE /\ requestCache' = CacheDelete(requestCache, cacheKey(f))
                      /\ Returns(r, FailureResponse(res, 400, "product_not_found"))
    /\ UNCHANGED <<now, temporaryProduct, variants, cleanupLog, clockSteps>>
    /\ UNCHANGED reconVars

\* findExistingVariant: await withTimeout(admin.get(products/<id>/variants)); its catch
\* returns null.  With a match the price update is issued, without one the creation.
FindExistingVariant(r) ==
    /\ request[r].pc = "find"
    /\ \E o \in Outcomes :
          /\ Outcome(o)
          /\ IF withTimeout(o) = "ok" /\ Matching(request[r].form) # {}
             THEN Become(r, [request[r] EXCEPT
                                !.pc = "put",
                                !.existingVariant = Read(Min(Matching(request[r].form)))])
             ELSE At(r, "create")
    /\ UNCHANGED <<now, temporaryProduct, variants, cleanupLog, clockSteps, requestCache>>
    /\ UNCHANGED reconVars

\* the catch of the reuse path: success with existingVariant as the lookup showed it
ReuseFallback(r) ==
    /\ requestCache' = CacheDelete(requestCache, cacheKey(request[r].form))
    /\ Returns(r, SuccessResponse(request[r].existingVariant,
                                  request[r].calculatedPrice, TRUE))

\* the catalog takes a price for variant v
WithPrice(v, price) == [variants EXCEPT ![v].requested = price, ![v].price = price]

\* reuse path: await withTimeout(admin.put(variants/<existingVariant.id>, price))
UpdateExistingPrice(r) ==
    /\ request[r].pc = "put"
    /\ \E o \in Outcomes :
          /\ Outcome(o)
          /\ LET v == request[r].existingVariant.id
                 res == IF o = "ok" /\ ~variants[v].alive THEN "error" ELSE withTimeout(o)
             IN  IF res = "ok"
                 THEN /\ variants' = WithPrice(v, request[r].calculatedPrice)
                      /\ At(r, "reread")
                      /\ UNCHANGED requestCache
                 ELSE /\ ReuseFallback(r)
                      /\ UNCHANGED variants
    /\ UNCHANGED <<now, temporaryProduct, cleanupLog, clockSteps>>
    /\ UNCHANGED reconVars

\* reuse path: await admin.get(variants/<existingVariant.id>), not under withTimeout
ReReadExisting(r) ==
    /\ request[r].pc = "reread"
    /\ \E o \in Outcomes :
          /\ Outcome(o)
          /\ LET v == request[r].existingVariant.id
                 res == IF o = "ok" /\ ~variants[v].alive THEN "error" ELSE o
             IN  CASE res = "ok" ->
                        /\ requestCache' = CacheDelete(requestCache, cacheKey(request[r].form))
                        /\ Returns(r, SuccessResponse(Read(v), request[r].calculatedPrice, TRUE))
                   [] res = "error" -> ReuseFallback(r)
                   [] res = "silent" -> Hangs(r) /\ UNCHANGED requestCache
    /\ UNCHANGED <<now, temporaryProduct, variants, cleanupLog, clockSteps>>
    /\ UNCHANGED reconVars

\* the prices the body of a creation can show: the one asked for, or 0 or null while
\* the catalog has not set it
FirstPrices(price) == {price, 0, NULL}

\* creation path: await withTimeout(admin.post(products/<id>/variants)) and the catch
\* of the creation.  The catalog refuses a second variant with the same options
\* ("already exists"); the catch then looks the variant up once more.
CreateVariant(r) ==
    /\ request[r].pc = "create"
    /\ LET f == request[r].form
       IN  \E o \in Outcomes :
              /\ Outcome(o)
              /\ CASE withTimeout(o) = "ok" /\ Matching(f) = {} ->
                        \E first \in FirstPrices(request[r].calculatedPrice) :
                           /\ variants' = Append(variants,
                                 NewVariant(Options(f), request[r].calculatedPrice, first))
                           /\ Become(r, [request[r] EXCEPT
                                 !.pc = "poll", !.i = 0,
                                 !.newVariant = [id |-> Len(variants) + 1, price |-> first]])
                           /\ UNCHANGED requestCache
                   [] withTimeout(o) = "ok" /\ Matching(f) # {} ->
                        /\ requestCache' = CacheDelete(requestCache, cacheKey(f))
                        /\ At(r, "retry_find")
                        /\ UNCHANGED variants
                   [] OTHER ->
                        /\ requestCache' = CacheDelete(requestCache, cacheKey(f))
                        /\ Returns(r, FailureResponse(withTimeout(o), 500, "creation_failed"))
                        /\ UNCHANGED variants
    /\ UNCHANGED <<now, temporaryProduct, cleanupLog, clockSteps>>
    /\ UNCHANGED reconVars

\* a catch of the creation that surfaces the conflict without looking the variant up
RetryFindExisting_NoLookup(r) ==
    /\ request[r].pc = "retry_find"
    /\ \E o \in Outcomes :
          /\ Outcome(o)
          /\ Returns(r, ErrorResponse(500, "creation_failed"))
    /\ UNCHANGED <<now, temporaryProduct, variants, cleanupLog, clockSteps, requestCache>>
    /\ UNCHANGED reconVars

\* the catch of the creation after "already exists": await findExistingVariant
RetryFindExisting(r) ==
    /\ request[r].pc = "retry_find"
    /\ \E o \in Outcomes :
          /\ Outcome(o)
          /\ IF withTimeout(o) = "ok" /\ Matching(request[r].form) # {}
             THEN Returns(r, SuccessResponse(Read(Min(Matching(request[r].form))),
                                             request[r].calculatedPrice, TRUE))
             ELSE Returns(r, ErrorResponse(500, "creation_failed"))
    /\ UNCHANGED <<now, temporaryProduct, variants, cleanupLog, clockSteps, requestCache>>
    /\ UNCHANGED reconVars

\* after waitForVariantReady: if (readyVariant) newVariant = readyVariant; then the
\* price check that issues the fallback update, or the store write
AfterReady(r, variant) ==
    Become(r, [request[r] EXCEPT
                  !.newVariant = variant, !.i = 0,
                  !.pc = IF variant.price = NULL \/ variant.price = 0
                         THEN "fix_put" ELSE "db_row"])

\* waitForVariantReady, one round of the loop: the sleep and
\* await withTimeout(admin.get(variants/<id>)); a failed read is logged and the loop
\* goes on; after maxRetries rounds the final read is issued
PollVariant(r) ==
    /\ request[r].pc = "poll"
    /\ \E o \in Outcomes :
          /\ Outcome(o)
          /\ LET v == request[r].newVariant.id
                 res == IF o = "ok" /\ ~variants[v].alive THEN "error" ELSE withTimeout(o)
             IN  IF /\ res = "ok"
                    /\ variants[v].price # NULL
                    /\ variants[v].price = request[r].calculatedPrice
                 THEN AfterReady(r, Read(v))
                 ELSE IF request[r].i + 1 < maxRetries
                      THEN Become(r, [request[r] EXCEPT !.i = @ + 1])
                      ELSE At(r, "final")
    /\ UNCHANGED <<now, temporaryProduct, variants, cleanupLog, clockSteps, requestCache>>
    /\ UNCHANGED reconVars

\* waitForVariantReady: the final await admin.get(variants/<id>), not under
\* withTimeout; its catch returns null and newVariant stays the body of the creation
FinalRead(r) ==
    /\ request[r].pc = "final"
    /\ \E o \in Outcomes :
          /\ Outcome(o)
          /\ LET v == request[r].newVariant.id
                 res == IF o = "ok" /\ ~variants[v].alive THEN "error" ELSE o
             IN  CASE res = "ok" -> AfterReady(r, Read(v))
                   [] res = "error" -> AfterReady(r, request[r].newVariant)
                   [] res = "silent" -> Hangs(r)
    /\ UNCHANGED <<now, temporaryProduct, variants, cleanupLog, clockSteps, requestCache>>
    /\ UNCHANGED reconVars

\* fallback: await admin.put(variants/<id>, priceString), not under withTimeout; the
\* inner catch logs a failure and the handler goes on to the store write
FallbackUpdate(r) ==
    /\ request[r].pc = "fix_put"
    /\ \E o \in Outcomes :
          /\ Outcome(o)
          /\ LET v == request[r].newVariant.id
                 res == IF o = "ok" /\ ~variants[v].alive THEN "error" ELSE o
             IN  CASE res = "ok" ->
                        /\ variants' = WithPrice(v, request[r].calculatedPrice)
                        /\ At(r, "fix_get")
                   [] res = "error" -> At(r, "db_row") /\ UNCHANGED variants
                   [] res = "silent" -> Hangs(r) /\ UNCHANGED variants
    /\ UNCHANGED <<now, temporaryProduct, cleanupLog, clockSteps, requestCache>>
    /\ UNCHANGED reconVars

\* fallback: await admin.get(variants/<id>) after the update, not under withTimeout
FallbackReRead(r) ==
    /\ request[r].pc = "fix_get"
    /\ \E o \in Outcomes :
          /\ Outcome(o)
          /\ LET v == request[r].newVariant.id
                 res == IF o = "ok" /\ ~variants[v].alive THEN "error" ELSE o
             IN  CASE res = "ok" ->
                        Become(r, [request[r] EXCEPT !.pc = "db_row", !.newVariant = Read(v)])
                   [] res = "error" -> At(r, "db_row")
                   [] res = "silent" -> Hangs(r)
    /\ UNCHANGED <<now, temporaryProduct, variants, cleanupLog, clockSteps, requestCache>>
    /\ UNCHANGED reconVars

\* after the store writes: requestCache.delete(cacheKey), finalPrice, the response
Finish(r) ==
    /\ requestCache' = CacheDelete(requestCache, cacheKey(request[r].form))
    /\ Returns(r, SuccessResponse(request[r].newVariant, request[r].calculatedPrice, FALSE))

\* a store write whose rejection reaches the top-level catch of the action
CreateRow_FailureIsAnError(r) ==
    /\ request[r].pc = "db_row"
    /\ LET f == request[r].form
       IN  \/ /\ ~parseIntIsNaN(f.boy) /\ ~parseIntIsNaN(f.en)
              /\ Succeeds
              /\ temporaryProduct' =
                    Append(temporaryProduct,
                           NewRow(request[r].newVariant.id, parseInt(f.boy), parseInt(f.en),
                                  f.materyal, request[r].calculatedPrice,
                                  parseInt(f.boy) * parseInt(f.en)))
              /\ At(r, "db_log")
              /\ UNCHANGED requestCache
           \/ /\ parseIntIsNaN(f.boy) \/ parseIntIsNaN(f.en)
              /\ Succeeds
              /\ Finish(r)
              /\ UNCHANGED temporaryProduct
           \/ /\ Fails
              /\ Returns(r, ErrorResponse(500, "system_error"))
              /\ UNCHANGED <<temporaryProduct, requestCache>>
    /\ UNCHANGED <<now, variants, cleanupLog, clockSteps>>
    /\ UNCHANGED reconVars

\* await prisma.temporaryProduct.create; the store refuses NaN in an INTEGER column;
\* the catch around both store writes logs the failure
CreateRow(r) ==
    /\ request[r].pc = "db_row"
    /\ LET f == request[r].form
       IN  \/ /\ ~parseIntIsNaN(f.boy) /\ ~parseIntIsNaN(f.en)
              /\ Succeeds
              /\ temporaryProduct' =
                    Append(temporaryProduct,
                           NewRow(request[r].newVariant.id, parseInt(f.boy), parseInt(f.en),
                                  f.materyal, request[r].calculatedPrice,
                                  parseInt(f.boy) * parseInt(f.en)))
              /\ At(r, "db_log")
              /\ UNCHANGED requestCache
           \/ /\ parseIntIsNaN(f.boy) \/ parseIntIsNaN(f.en)
              /\ Succeeds
              /\ Finish(r)
              /\ UNCHANGED temporaryProduct
           \/ /\ Fails
              /\ Finish(r)
              /\ UNCHANGED temporaryProduct
    /\ UNCHANGED <<now, variants, cleanupLog, clockSteps>>
    /\ UNCHANGED reconVars

\* await prisma.cleanupLog.create("variant_created"), in the same try
LogCreated(r) ==
    /\ request[r].pc = "db_log"
    /\ LogWritten("variant_created")
    /\ Finish(r)
    /\ UNCHANGED <<now, temporaryProduct, variants, clockSteps>>
    /\ UNCHANGED reconVars

(***************************************************************************)
(* The environment of the Provisioner                                      *)
(***************************************************************************)
\* the catalog sets the price of a variant it had answered for before
Settle(v) ==
    /\ variants[v].alive
    /\ variants[v].price \in {0, NULL}
    /\ variants' = [variants EXCEPT ![v].price = variants[v].requested]
    /\ UNCHANGED <<now, temporaryProduct, cleanupLog, clockSteps, faults, requestCache,
                   request>>
    /\ UNCHANGED reconVars

\* time passes while requests are handled
Elapse ==
    /\ clockSteps < MaxElapses
    /\ clockSteps' = clockSteps + 1
    /\ now' = now + ElapseMs
    /\ UNCHANGED <<temporaryProduct, variants, cleanupLog, faults, requestCache, request>>
    /\ UNCHANGED reconVars

ProvNext ==
    \/ \E r \in Requests : Arrive(r)
    \/ \E r \in Requests : BaseVariantRead(r)
    \/ \E r \in Requests : FindExistingVariant(r)
    \/ \E r \in Requests : UpdateExistingPrice(r)
    \/ \E r \in Requests : ReReadExisting(r)
    \/ \E r \in Requests : CreateVariant(r)
    \/ \E r \in Requests : RetryFindExisting(r)
    \/ \E r \in Requests : PollVariant(r)
    \/ \E r \in Requests : FinalRead(r)
    \/ \E r \in Requests : FallbackUpdate(r)
    \/ \E r \in Requests : FallbackReRead(r)
    \/ \E r \in Requests : CreateRow(r)
    \/ \E r \in Requests : LogCreated(r)
    \/ \E v \in DOMAIN variants : Settle(v)
    \/ Elapse

(***************************************************************************)
(* The Reconciler with its environment                                     *)
(***************************************************************************)
\* the process has started: nothing runs, the store and the catalog hold no custom
\* variant yet; sweeps, scans and faults are what the run may still see
InitWith(sweeps, scans, failing) ==
    /\ now = 0
    /\ temporaryProduct = <<>>
    /\ variants = <<>>
    /\ cleanupLog = [a \in LogActions |-> 0]
    /\ recentErrors = <<>>
    /\ pendingAlarms = 0
    /\ pc = [p \in Procs |-> "idle"]
    /\ batch = [p \in Procs |-> <<>>]
    /\ idx = [p \in Procs |-> 0]
    /\ stats = [p \in Procs |-> ZeroStats]
    /\ attempted = [p \in Procs |-> {}]
    /\ runs = [p \in Procs |-> IF p = "sweep" THEN sweeps ELSE scans]
    /\ clockSteps = 0
    /\ faults = failing
    /\ requestCache = EmptyCache
    /\ request = [r \in Requests |-> NoRequest]

Init == InitWith(MaxSweeps, MaxScans, MaxFaults)

\* what the frequent sweep and its environment do
SweepNext ==
    \/ SweepStart
    \/ \E p \in Procs : LoadSession(p)
    \/ \E p \in Procs : GetVariant(p)
    \/ \E p \in Procs : DeleteVariant(p)
    \/ \E p \in Procs : MarkDeleted(p)
    \/ LogDeleted
    \/ UpdateAttempts
    \/ LogError
    \/ \E p \in Procs : LogSummary(p)
    \/ SendAlarm
    \/ CreateTemporaryProduct
    \/ \E i \in RowIds : PlaceOrder(i)
    \/ Tick

Next ==
    \/ SweepNext
    \/ DailyStart

\* both loops of the Reconciler
Spec == Init /\ [][Next]_vars

\* the continuation of pass p after the call it awaits has settled
PassStep(p) ==
    \/ LoadSession(p)
    \/ GetVariant(p)
    \/ DeleteVariant(p)
    \/ MarkDeleted(p)
    \/ LogSummary(p)
    \/ /\ p = "sweep"
       /\ (LogDeleted \/ UpdateAttempts \/ LogError)

\* both loops when every call a pass awaits settles, resolved or rejected, and the
\* event loop resumes the pass
SpecLive == Init /\ [][Next]_vars /\ \A p \in Procs : WF_vars(PassStep(p))

\* the frequent sweep between two daily full scans
InitSweep == InitWith(MaxSweepsAlone, 0, MaxFaultsAlone)

SpecSweep == InitSweep /\ [][SweepNext]_vars

(***************************************************************************)
(* The Provisioner with its environment                                    *)
(***************************************************************************)
\* no pass of the Reconciler runs; the catalog holds what earlier requests left
InitRequests(forms, catalog, failing) ==
    /\ now = 0
    /\ temporaryProduct = <<>>
    /\ variants = catalog
    /\ cleanupLog = [a \in LogActions |-> 0]
    /\ recentErrors = <<>>
    /\ pendingAlarms = 0
    /\ pc = [p \in Procs |-> "idle"]
    /\ batch = [p \in Procs |-> <<>>]
    /\ idx = [p \in Procs |-> 0]
    /\ stats = [p \in Procs |-> ZeroStats]
    /\ attempted = [p \in Procs |-> {}]
    /\ runs = [p \in Procs |-> 0]
    /\ clockSteps = 0
    /\ faults = failing
    /\ requestCache = EmptyCache
    /\ request = forms

\* requests for one frame: the first for 19.999, the others for 19.999 or 30
SameFrame ==
    {rs \in [Requests -> {NewRequest(SampleForm), NewRequest(OtherPriceForm), NoRequest}] :
        /\ rs[1] = NewRequest(SampleForm)
        /\ \A r \in Requests : r > FaultyRequests => rs[r] = NoRequest}

\* a variant for the frame left by an earlier request, at its old price
EarlierVariant == NewVariant(Options(SampleForm), 2500, 2500)

InitProv ==
    \E rs \in SameFrame, catalog \in {<<>>, <<EarlierVariant>>} :
        InitRequests(rs, catalog, MaxProvFaults)

SpecProv == InitProv /\ [][ProvNext]_vars

\* requests for one frame at one price while every call answers
InitDedup == InitRequests([r \in Requests |-> NewRequest(SampleForm)], <<>>, 0)

SpecDedup == InitDedup /\ [][ProvNext]_vars

\* one request whose width, height and material are any of these texts
DimensionTexts ==
    {<<>>, <<"0">>, <<"-", "5">>, <<"a", "b", "c">>, <<"5", "0">>, <<"1", "0", "0">>}

InputForms ==
    {Form(CatalogBaseVariant, boy, en, materyal, SampleForm.calculatedPrice) :
        boy \in DimensionTexts, en \in DimensionTexts, materyal \in {<<>>, Pamuk}}

\* the first slot carries form f, the others are not used
Single(f) == [r \in Requests |-> IF r = 1 THEN NewRequest(f) ELSE NoRequest]

InitInput ==
    \E f \in InputForms, catalog \in {<<>>, <<EarlierVariant>>} :
        InitRequests(Single(f), catalog, MaxInputFaults)

SpecInput == InitInput /\ [][ProvNext]_vars

\* one request whose price is any of these texts: a sign, digits, a point and digits
IntegerTexts ==
    {<<"0">>, <<"1">>, <<"1", "9">>, <<"9", "9", "9", "9", "9", "9">>,
     <<"1", "0", "0", "0", "0", "0", "0">>}

FractionTexts ==
    {<<>>, <<".">>, <<".", "0">>, <<".", "0", "0", "4">>, <<".", "0", "0", "5">>,
     <<".", "0", "0", "9">>, <<".", "0", "1">>, <<".", "5">>, <<".", "9", "9">>,
     <<".", "9", "9", "4">>, <<".", "9", "9", "5">>, <<".", "9", "9", "9">>}

PriceTexts ==
    {sign \o int \o fr : sign \in {<<>>, <<"-">>}, int \in IntegerTexts, fr \in FractionTexts}
        \cup {<<>>, <<"a", "b", "c">>, <<".", "5">>}

InitPrice ==
    \E price \in PriceTexts :
        InitRequests(Single([SampleForm EXCEPT !.calculatedPrice = price]), <<>>, 0)

\* the handler up to validatePrice and the duplicate check
PriceNext == \E r \in Requests : Arrive(r)

SpecPrice == InitPrice /\ [][PriceNext]_vars

\* String(n) of a natural number
RECURSIVE TextOf(_)
TextOf(n) ==
    IF n < 10 THEN <<Digits[n + 1]>> ELSE TextOf(n \div 10) \o <<Digits[(n % 10) + 1]>>

\* the form of the invocation that asked for a frame n cm wide
FrameOfWidth(n) == [SampleForm EXCEPT !.boy = TextOf(n)]

\* the instant at which the burst of requests is looked at
BurstTime == 2 * CACHE_DURATION

\* the invocations of a burst arrive one every ArrivalGap ms
ArrivalGap == CACHE_DURATION \div (MAX_CACHE_SIZE + 2)

\* how old the entries of the map are: set in this millisecond, exactly CACHE_DURATION
\* old, older than that, every second one older, or set one after the other inside
\* CACHE_DURATION
StampPatterns == {"fresh", "edge", "stale", "mixed", "aged"}

StampOf(pat, n) ==
    CASE pat = "fresh" -> BurstTime
      [] pat = "edge" -> BurstTime - CACHE_DURATION
      [] pat = "stale" -> BurstTime - CACHE_DURATION - 1
      [] pat = "mixed" -> IF n % 2 = 0 THEN BurstTime - CACHE_DURATION - 1 ELSE BurstTime
      [] pat = "aged" -> BurstTime - CACHE_DURATION + n * ArrivalGap

\* the map while the invocations for the widths 1..size are in flight
BurstCache(size, pat) ==
    LET keys == {cacheKey(FrameOfWidth(n)) : n \in 1..size}
    IN  [k \in keys |-> StampOf(pat, parseInt(k))]

\* the sizes of the map an invocation meets: few entries, and entries about the cap
BurstSizes ==
    0..SmallBurst \cup (MAX_CACHE_SIZE - CapMargin)..(MAX_CACHE_SIZE + 1)

\* an invocation arrives for a width in flight already or for a new one, while a burst
\* of invocations is in flight
InitCache ==
    \E size \in BurstSizes, pat \in StampPatterns,
       f \in {FrameOfWidth(1), FrameOfWidth(MAX_CACHE_SIZE + 2)} :
        /\ now = BurstTime
        /\ temporaryProduct = <<>>
        /\ variants = <<>>
        /\ cleanupLog = [a \in LogActions |-> 0]
        /\ recentErrors = <<>>
        /\ pendingAlarms = 0
        /\ pc = [p \in Procs |-> "idle"]
        /\ batch = [p \in Procs |-> <<>>]
        /\ idx = [p \in Procs |-> 0]
        /\ stats = [p \in Procs |-> ZeroStats]
        /\ attempted = [p \in Procs |-> {}]
        /\ runs = [p \in Procs |-> 0]
        /\ clockSteps = 0
        /\ faults = 0
        /\ requestCache = BurstCache(size, pat)
        /\ request = Single(f)

\* the handler up to requestCache.set
CacheNext == \E r \in Requests : Arrive(r)

SpecCache == InitCache /\ [][CacheNext]_vars

(***************************************************************************)
(* Claims about the Reconciler                                             *)
(***************************************************************************)
\* the rows of the snapshot a pass holds
Snapshot(p) == {batch[p][k] : k \in 1..Len(batch[p])}

\* runCleanupPass returns in this step
SweepReturns == pc["sweep"] # "idle" /\ pc'["sweep"] = "idle"

\* C1: a record with isOrdered = true is never deleted by the Reconciler: no step taken
\* while the record is ordered removes its catalog variant or sets its deletedAt.
C1_OrderedNeverDeleted ==
    [][\A i \in RowIds :
          temporaryProduct[i].isOrdered =>
              /\ temporaryProduct'[i].deletedAt = temporaryProduct[i].deletedAt
              /\ variants'[temporaryProduct[i].variantId].alive
                    = variants[temporaryProduct[i].variantId].alive]_vars

\* C2: deletedAt is written at most once per record: whenever a pass writes deletedAt,
\* the record's deletedAt is still null, also while both passes hold the record.
C2_DeletedAtWrittenOnce ==
    [][\A p \in Procs :
          MarkDeletedOk(p) => temporaryProduct[Item(p)].deletedAt = NULL]_vars

\* C3: a record whose deletion failed before (cleanupAttempts > 0) and that a later
\* sweep holds in its snapshot is attempted again by that sweep before it returns.
C3_FailedRecordRetried ==
    [][SweepReturns =>
          \A i \in Snapshot("sweep") :
              temporaryProduct[i].cleanupAttempts > 0 => i \in attempted["sweep"]]_vars

\* C5: a failure while one item is handled never keeps the sweep from the remaining
\* items: when the sweep returns, every item of its snapshot has been attempted.
C5_FailureNeverBlocksBatch ==
    [][SweepReturns => Snapshot("sweep") \subseteq attempted["sweep"]]_vars

(***************************************************************************)
(* Claims about the Provisioner                                            *)
(***************************************************************************)
\* the invocation is past the duplicate check and has not returned
InFlight(r) == request[r].pc \notin {"absent", "new", "done"}

\* the invocation returns in this step
ProvReturns(r) == request[r].pc # "done" /\ request'[r].pc = "done"

\* width and height parse as positive integers
PositiveInteger(s) == ~parseIntIsNaN(s) /\ parseInt(s) > 0

\* C4: two requests for the same key that are both past the duplicate check and have
\* not returned were admitted at least the 3-second window apart: of two requests
\* admitted within the window only one proceeds to the catalog.
C4_OneProceedsPerWindow ==
    \A r1, r2 \in Requests :
        /\ r1 # r2
        /\ InFlight(r1) /\ InFlight(r2)
        /\ cacheKey(request[r1].form) = cacheKey(request[r2].form)
        /\ request[r1].admittedAt <= request[r2].admittedAt
        => request[r2].admittedAt - request[r1].admittedAt >= 3000

\* C6: the success response of the creation path of a valid request carries the
\* requested price, and the catalog shows that price for the new variant when the
\* response is returned.
C6_NoSilentWrongPrice ==
    [][\A r \in Requests :
          /\ ProvReturns(r)
          /\ PositiveInteger(request[r].form.boy) /\ PositiveInteger(request[r].form.en)
          /\ request'[r].response.status = 200
          /\ ~request'[r].response.usedExisting
          => /\ request'[r].response.price = request[r].calculatedPrice
             /\ variants'[request'[r].response.variantId].price
                   = request'[r].response.price]_vars

\* C7: a request that got past the base-variant read and returns while a variant with
\* its three options is on the product returns success with the id of such a variant.
C7_ExistingVariantReturned ==
    [][\A r \in Requests :
          /\ ProvReturns(r)
          /\ request[r].pc \notin {"new", "base"}
          /\ Matching(request[r].form) # {}
          => /\ request'[r].response.status = 200
             /\ request'[r].response.variantId \in Matching(request[r].form)]_vars

\* C8: no request is ever left waiting for a catalog call that never responds and
\* that no timeout bounds.
C8_EveryCallBounded == \A r \in Requests : request[r].pc # "hung"

\* C9: a request whose width or height is not a positive integer or whose material is
\* empty returns an error before the dedup map, the catalog or the store see it.
C9_InvalidDimensionsRejected ==
    \A r \in Requests :
        LET f == request[r].form
        IN  /\ request[r].pc \notin {"absent", "new"}
            /\ ~PositiveInteger(f.boy) \/ ~PositiveInteger(f.en) \/ Missing(f.materyal)
            => /\ request[r].pc = "done"
               /\ ~request[r].called
               /\ request[r].response.errorType
                     \in {"validation", "session_not_found", "system_error"}

\* C10: a price below 0.01 or above 999999.99 (or no number) is rejected as
\* invalid_price; an accepted price is the price rounded to hundredths, a whole number
\* of hundredths from 0.01 to 999999.99.
C10_PriceValidatedAndRounded ==
    \A r \in Requests :
        LET price == request[r].form.calculatedPrice
        IN  request[r].pc \notin {"absent", "new"} /\ ~Missing(price) =>
               IF parseFloatIsNaN(price) \/ parseFloat(price) < 10
                                         \/ parseFloat(price) > 999999990
               THEN /\ request[r].pc = "done"
                    /\ request[r].response.status = 400
                    /\ request[r].response.errorType = "invalid_price"
               ELSE /\ request[r].pc = "base"
                    /\ request[r].calculatedPrice \in 1..99999999
                    /\ request[r].calculatedPrice * 10 - parseFloat(price) \in -5..5

\* 19.999 has been accepted as 20.00
C10_Witness ==
    \E r \in Requests :
        /\ request[r].form.calculatedPrice = <<"1", "9", ".", "9", "9", "9">>
        /\ request[r].pc = "base"
        /\ request[r].calculatedPrice = 2000

(***************************************************************************)
(* Claims about the selection and the order of the frequent sweep          *)
(***************************************************************************)
\* runCleanupPass takes its snapshot in this step
SweepSelects == pc["sweep"] = "idle" /\ pc'["sweep"] # "idle"

\* C11: every item of the batch the frequent sweep selects has isOrdered = false,
\* deletedAt = null and scheduledDeletionAt <= the start time of the sweep.
C11_SelectionExcludesOrdered ==
    [][SweepSelects =>
          \A k \in 1..Len(batch'["sweep"]) :
              LET row == temporaryProduct[batch'["sweep"][k]]
              IN  /\ row.isOrdered = FALSE
                  /\ row.deletedAt = NULL
                  /\ row.scheduledDeletionAt <= now]_vars

\* a sweep holds a batch while an expired, live, ordered record stays outside it
C11_Witness ==
    /\ pc["sweep"] = "load"
    /\ idx["sweep"] = 1
    /\ \E i \in RowIds :
          /\ temporaryProduct[i].isOrdered
          /\ temporaryProduct[i].deletedAt = NULL
          /\ temporaryProduct[i].scheduledDeletionAt <= now
          /\ temporaryProduct[i].createdAt < now
          /\ i \notin Snapshot("sweep")

\* the catalog variant of row i goes, or its deletedAt is written, in this step
Touched(i) ==
    \/ temporaryProduct'[i].deletedAt # temporaryProduct[i].deletedAt
    \/ variants'[temporaryProduct[i].variantId].alive
          # variants[temporaryProduct[i].variantId].alive

\* C12: a sweep that starts before a record's scheduledDeletionAt does not hold the
\* record and touches only records it holds; a sweep that starts at or after the
\* scheduledDeletionAt of a live, non-ordered record holds it, and when no item of the
\* sweep failed the sweep ends with the variant gone and deletedAt set.
C12_SweepDeletesOnlyExpired ==
    [][/\ SweepSelects =>
             \A i \in RowIds :
                 /\ (temporaryProduct[i].scheduledDeletionAt > now
                       => i \notin Snapshot("sweep")')
                 /\ ((/\ temporaryProduct[i].scheduledDeletionAt <= now
                      /\ temporaryProduct[i].deletedAt = NULL
                      /\ ~temporaryProduct[i].isOrdered)
                       => i \in Snapshot("sweep")')
       /\ \A i \in RowIds : Touched(i) => i \in Snapshot("sweep")
       /\ ((/\ pc["sweep"] = "summary"
            /\ stats["sweep"].errors = 0
            /\ SweepReturns)
           => \A i \in Snapshot("sweep") :
                 /\ temporaryProduct[i].deletedAt # NULL
                 /\ ~variants[temporaryProduct[i].variantId].alive)]_vars

\* a sweep without a failed item is about to return: it deleted the expired record it
\* held and left alone the record whose scheduledDeletionAt is still ahead
C12_Witness ==
    /\ pc["sweep"] = "summary"
    /\ stats["sweep"].errors = 0
    /\ \E i \in Snapshot("sweep") :
          /\ temporaryProduct[i].deletedAt = now
          /\ ~variants[temporaryProduct[i].variantId].alive
    /\ \E j \in RowIds :
          /\ temporaryProduct[j].scheduledDeletionAt > now
          /\ temporaryProduct[j].deletedAt = NULL
          /\ variants[temporaryProduct[j].variantId].alive

\* C13: within one sweep, when the attempt for a record has started, every record of
\* the batch with an earlier scheduledDeletionAt has been attempted and its attempt,
\* with its bookkeeping writes, is over (it is not the item the loop stands at).
C13_AscendingOrder ==
    pc["sweep"] # "idle" =>
        \A i, j \in Snapshot("sweep") :
            /\ temporaryProduct[i].scheduledDeletionAt
                  < temporaryProduct[j].scheduledDeletionAt
            /\ j \in attempted["sweep"]
            => /\ i \in attempted["sweep"]
               /\ i # Item("sweep")

\* the sweep stands at the second record of its batch after the attempt for the
\* first, with the earlier scheduledDeletionAt, failed and was booked
C13_Witness ==
    /\ pc["sweep"] = "load"
    /\ idx["sweep"] = 2
    /\ temporaryProduct[batch["sweep"][1]].scheduledDeletionAt
          < temporaryProduct[batch["sweep"][2]].scheduledDeletionAt
    /\ temporaryProduct[batch["sweep"][1]].cleanupAttempts > 0
    /\ temporaryProduct[batch["sweep"][1]].deletedAt = NULL

(***************************************************************************)
(* Claims about the deletion primitive                                     *)
(***************************************************************************)
\* the catalog variant of the item pass p stands at
ItemVariant(p) == variants[temporaryProduct[Item(p)].variantId]

\* pass p leaves the await it stands at while the call it awaited did not fail
Answered(p) == pc'[p] # pc[p] /\ faults' = faults

\* C14: when the read or the delete of deleteTemporaryVariant finds the variant absent
\* (404), the primitive goes on to the store write with no error tracked and nothing
\* booked on the record, and the store write sets deletedAt and leaves cleanupAttempts
\* as it was, also when the record was marked deleted before.
C14_AbsentVariantIsNoError ==
    [][\A p \in Procs :
          /\ ((/\ pc[p] \in {"get", "delete"}
               /\ ~ItemVariant(p).alive
               /\ Answered(p))
              => /\ pc'[p] = "mark"
                 /\ batch'[p] = batch[p] /\ idx'[p] = idx[p]
                 /\ stats'[p].errors = stats[p].errors
                 /\ recentErrors' = recentErrors
                 /\ pendingAlarms' = pendingAlarms
                 /\ temporaryProduct' = temporaryProduct)
          /\ ((/\ pc[p] = "mark"
               /\ ~ItemVariant(p).alive
               /\ Answered(p))
              => /\ temporaryProduct'[Item(p)].deletedAt = now
                 /\ temporaryProduct'[Item(p)].cleanupAttempts
                       = temporaryProduct[Item(p)].cleanupAttempts
                 /\ stats'[p].errors = stats[p].errors
                 /\ recentErrors' = recentErrors)]_vars

\* both passes stand at the store write for the same record: one of them deleted the
\* variant, the other found it absent
C14_Witness ==
    /\ pc["sweep"] = "mark"
    /\ pc["daily"] = "mark"
    /\ Item("sweep") = Item("daily")
    /\ ~ItemVariant("sweep").alive

(***************************************************************************)
(* Claims about the error tracker                                          *)
(***************************************************************************)
\* pass p counts one more failed deletion
DeletionFails(p) == stats'[p].errors = stats[p].errors + 1

\* C15: every failing deletion, by the frequent sweep or by the daily full scan, is
\* entered in the tracking window, and the alarm is raised exactly by the failure that
\* makes three in the window, not by the first or the second.
C15_ThirdFailureAlarms ==
    [][\A p \in Procs :
          DeletionFails(p) =>
             /\ recentErrors' = trackErrorLog(recentErrors, now)
             /\ (Len(recentErrors') < ERROR_THRESHOLD => pendingAlarms' = pendingAlarms)
             /\ (Len(recentErrors') = ERROR_THRESHOLD
                    => pendingAlarms' = pendingAlarms + 1)]_vars

\* C16: when loadSession finds no session for a record, no catalog call is made for it,
\* its deletedAt stays as it was, and the calling loop, sweep or daily scan, goes on to
\* increment its cleanupAttempts, which the bookkeeping write then does.
C16_SessionMissingCounted ==
    [][\A p \in Procs :
          /\ ((pc[p] = "load" /\ DeletionFails(p))
              => /\ variants' = variants
                 /\ temporaryProduct'[Item(p)].deletedAt = temporaryProduct[Item(p)].deletedAt
                 /\ \/ temporaryProduct'[Item(p)].cleanupAttempts
                          = temporaryProduct[Item(p)].cleanupAttempts + 1
                    \/ /\ pc'[p] = "err_update"
                       /\ batch'[p] = batch[p] /\ idx'[p] = idx[p])
          /\ ((pc[p] = "err_update" /\ Answered(p))
              => temporaryProduct'[Item(p)].cleanupAttempts
                    = temporaryProduct[Item(p)].cleanupAttempts + 1)]_vars

\* C17: cleanupAttempts of every record never goes down: no step of a sweep, of a daily
\* scan, of a deletion that succeeds or fails, or of the creation of another record
\* lowers or resets it, also once the record is marked deleted.
C17_AttemptsNeverDecrease ==
    [][\A i \in RowIds :
          temporaryProduct'[i].cleanupAttempts >= temporaryProduct[i].cleanupAttempts]_vars

\* a record that failed once and was marked deleted by a later attempt
C17_Witness ==
    \E i \in RowIds :
        /\ temporaryProduct[i].cleanupAttempts > 0
        /\ temporaryProduct[i].deletedAt # NULL

\* pass p starts and its findMany rejects, or a call it awaits inside the loop rejects
\* and the pass ends with it (the summary's audit write is swallowed, not escaping)
EscapingFailure(p) ==
    /\ faults' < faults
    /\ \/ runs'[p] # runs[p]
       \/ /\ pc[p] \notin {"idle", "summary", "log_empty"}
          /\ pc'[p] = "idle"

\* C18: runCleanupPass and runDailyFullScan never raise and always return, whatever
\* session lookup, catalog call, store read or write, audit or alarm write fails: a
\* failure that escapes the per-item handling is tracked by the Error/Alarm Tracker in
\* the step in which the pass returns, and every pass that started comes back to idle.
C18_PassesComplete ==
    /\ [][\A p \in Procs :
             EscapingFailure(p) =>
                /\ pc'[p] = "idle"
                /\ recentErrors' = trackErrorLog(recentErrors, now)
                /\ pendingAlarms' = pendingAlarms
                                      + (IF alarmRaised(recentErrors, now) THEN 1 ELSE 0)]_vars
    /\ \A p \in Procs : (pc[p] # "idle") ~> (pc[p] = "idle")

\* the sweep has returned, no daily scan ran, an error is tracked and no record carries
\* a counted attempt: the findMany or the bookkeeping write rejected
C18_Witness ==
    /\ pc["sweep"] = "idle"
    /\ runs["sweep"] < MaxSweeps
    /\ runs["daily"] = MaxScans
    /\ recentErrors # <<>>
    /\ \A i \in RowIds : temporaryProduct[i].cleanupAttempts = 0

(***************************************************************************)
(* Claims about the store writes of the Provisioner                        *)
(***************************************************************************)
\* request r stands at one of its two store writes: its catalog variant was created
AtStoreWrite(r) == request[r].pc \in {"db_row", "db_log"}

\* C19: once the catalog variant was created, the request leaves its store writes only
\* towards the next one or with the success response carrying the new variant's id,
\* whether the EphemeralVariant write or the audit-log write failed or not, and when it
\* returns its dedup-map entry is gone.
C19_StoreFailureKeepsSuccess ==
    [][\A r \in Requests :
          (AtStoreWrite(r) /\ request'[r] # request[r])
          => \/ /\ request[r].pc = "db_row"
                /\ request'[r].pc = "db_log"
                /\ faults' = faults
             \/ /\ request'[r].pc = "done"
                /\ request'[r].response
                      = SuccessResponse(request[r].newVariant, request[r].calculatedPrice,
                                        FALSE)
                /\ request'[r].response.status = 200
                /\ request'[r].response.variantId = request[r].newVariant.id
                /\ cacheKey(request[r].form) \notin DOMAIN requestCache']_vars

\* a request returned the success response for a variant it created while no row of
\* the store names that variant: the store write had failed
C19_Witness ==
    \E r \in Requests :
        /\ request[r].pc = "done"
        /\ request[r].response.status = 200
        /\ ~request[r].response.usedExisting
        /\ variants[request[r].response.variantId].alive
        /\ \A i \in RowIds : temporaryProduct[i].variantId # request[r].response.variantId

\* the row of the store written for request r at the instant of its store write
RowOf(r, row) ==
    /\ row.variantId = request[r].newVariant.id
    /\ row.area = parseInt(request[r].form.boy) * parseInt(request[r].form.en)
    /\ row.deletedAt = NULL
    /\ row.isOrdered = FALSE
    /\ row.cleanupAttempts = 0
    /\ row.createdAt = now
    /\ row.scheduledDeletionAt = now + SCHEDULED_DELETION_MS

\* C20: the table of EphemeralVariant rows changes only when a request that created a
\* new catalog variant writes its row: exactly one row is appended, for the new variant,
\* with area = width x height, deletedAt null, isOrdered false, cleanupAttempts 0 and
\* scheduledDeletionAt two hours after the creation, and every such request whose store
\* write does not fail appends it; a request served by an existing variant, found at
\* once or after an already-exists conflict, appends no row and changes none.
C20_RowOnlyOnCreation ==
    [][/\ (temporaryProduct' # temporaryProduct
           => \E r \in Requests :
                 /\ request[r].pc = "db_row"
                 /\ request'[r].pc = "db_log"
                 /\ Len(temporaryProduct') = Len(temporaryProduct) + 1
                 /\ SubSeq(temporaryProduct', 1, Len(temporaryProduct)) = temporaryProduct
                 /\ RowOf(r, temporaryProduct'[Len(temporaryProduct')]))
       /\ \A r \in Requests :
             (/\ request[r].pc = "db_row"
              /\ request'[r] # request[r]
              /\ faults' = faults)
             => Len(temporaryProduct') = Len(temporaryProduct) + 1]_vars

(***************************************************************************)
(* Claims about the audit log of the Provisioner                           *)
(***************************************************************************)
\* request r returns the success response in this step, and no call failed in it
SucceedsNow(r) ==
    /\ request[r].pc # "done"
    /\ request'[r].pc = "done"
    /\ request'[r].response.status = 200
    /\ faults' = faults

\* C21: every request that returns the success response, whether it created a variant
\* or reused an existing one, has appended exactly one AuditLogEntry by the time it
\* returns, when the store takes the write.
C21_SuccessIsLogged ==
    [][\A r \in Requests :
          SucceedsNow(r) =>
             cleanupLog' = [cleanupLog EXCEPT !["variant_created"] = @ + 1]]_vars

(***************************************************************************)
(* Claims about the already-exists conflict                                *)
(***************************************************************************)
\* the create call of request r is refused in this step: the combination already exists
Conflict(r) == request[r].pc = "create" /\ request'[r].pc = "retry_find"

\* C22: when the create call is refused because the combination already exists, the
\* request removes its dedup-map entry and runs the existing-variant lookup once more,
\* once: if the lookup answers and shows the matching variant the request returns
\* success with that variant and usedExisting, otherwise the creation-failed error; it
\* creates no variant and no row, and leaves the dedup map as it is.
C22_ConflictRetriesLookupOnce ==
    [][\A r \in Requests :
          /\ (Conflict(r)
              => /\ variants' = variants
                 /\ cacheKey(request[r].form) \notin DOMAIN requestCache')
          /\ ((request[r].pc = "retry_find" /\ request'[r] # request[r])
              => /\ request'[r].pc = "done"
                 /\ variants' = variants
                 /\ temporaryProduct' = temporaryProduct
                 /\ requestCache' = requestCache
                 /\ IF faults' = faults /\ Matching(request[r].form) # {}
                    THEN /\ request'[r].response.status = 200
                         /\ request'[r].response.usedExisting
                         /\ request'[r].response.variantId \in Matching(request[r].form)
                    ELSE request'[r].response = ErrorResponse(500, "creation_failed"))]_vars

\* the create call of a request was refused for a variant another request had created
\* meanwhile: its dedup-map entry is gone and the lookup it re-runs will find the variant
C22_Witness ==
    \E r \in Requests :
        /\ request[r].pc = "retry_find"
        /\ Matching(request[r].form) # {}
        /\ cacheKey(request[r].form) \notin DOMAIN requestCache
        /\ faults = MaxProvFaults

(***************************************************************************)
(* Claims about the daily full scan                                        *)
(***************************************************************************)
\* runDailyFullScan takes its snapshot in this step
DailySelects == pc["daily"] = "idle" /\ pc'["daily"] # "idle"

\* the record is at least 24 hours old since createdAt at this instant
ADayOld(i) == now - temporaryProduct[i].createdAt >= 24 * MS_PER_HOUR

\* the positions of the snapshot the for-of loop of the daily scan passes in this step
\* without calling deleteTemporaryVariant
PassedOver ==
    IF pc'["daily"] = "load"
    THEN (idx["daily"] + 1)..(idx'["daily"] - 1)
    ELSE (idx["daily"] + 1)..Len(batch'["daily"])

\* the for-of loop of the daily scan moves on in this step
DailyMoves ==
    /\ pc'["daily"] \in {"load", "summary"}
    /\ <<pc'["daily"], idx'["daily"]>> # <<pc["daily"], idx["daily"]>>

\* C23: the snapshot of a daily full scan is every record with deletedAt null, whatever
\* its scheduledDeletionAt; the scan calls the deletion primitive for a record of the
\* snapshot when and only when the record is at least 24 hours old since createdAt as
\* the loop reaches it, and when the loop is through it writes one daily_scan entry.
C23_DailyScanDeletesDayOld ==
    [][/\ (DailySelects
           => /\ Snapshot("daily")' = DailyWhere
              /\ Len(batch'["daily"]) = Cardinality(DailyWhere))
       /\ \A i \in attempted'["daily"] \ attempted["daily"] :
             /\ i \in Snapshot("daily")'
             /\ ADayOld(i)
             /\ i = batch'["daily"][idx'["daily"]]
       /\ (DailyMoves => \A m \in PassedOver : ~ADayOld(batch'["daily"][m]))
       /\ ((pc["daily"] = "summary" /\ pc'["daily"] = "idle" /\ faults' = faults)
           => cleanupLog'["daily_scan"] = cleanupLog["daily_scan"] + 1)
       /\ (cleanupLog'["daily_scan"] # cleanupLog["daily_scan"]
           => /\ pc["daily"] = "summary"
              /\ pc'["daily"] = "idle"
              /\ cleanupLog'["daily_scan"] = cleanupLog["daily_scan"] + 1)]_vars

\* the scan is through its snapshot: it called the primitive for a record a day old and
\* passed over a younger one
C23_Witness ==
    /\ pc["daily"] = "summary"
    /\ \E i \in attempted["daily"], j \in Snapshot("daily") \ attempted["daily"] :
          /\ ADayOld(i)
          /\ ~ADayOld(j)
          /\ temporaryProduct[j].deletedAt = NULL

\* trackError is called in this step: it pushes an entry
Tracks == recentErrors' # recentErrors

\* the entries of the log e that are inside the trailing window at this instant
Fresh(e) == SelectSeq(e, LAMBDA t : now - t < ERROR_WINDOW_MS)

\* C24: the alarm is level-triggered on the pruned window: a trackError call leaves in the
\* log the entries of the trailing 5 minutes and the new one, and raises exactly one alarm
\* when these are 3 or more (so the 4th error of a window raises a second alarm) and none
\* when they are fewer; an entry 5 minutes old or older is not counted, and no alarm is
\* raised but by a trackError call.
C24_AlarmIsLevelTriggered ==
    [][/\ (Tracks
           => /\ recentErrors' = Append(Fresh(recentErrors), now)
              /\ (Len(recentErrors') >= ERROR_THRESHOLD
                    => pendingAlarms' = pendingAlarms + 1)
              /\ (Len(recentErrors') < ERROR_THRESHOLD
                    => pendingAlarms' = pendingAlarms))
       /\ (pendingAlarms' > pendingAlarms => Tracks)]_vars

\* four errors stand in one window and the alarm was raised twice, at the third and at
\* the fourth
C24_Witness ==
    /\ Len(recentErrors) = ERROR_THRESHOLD + 1
    /\ pendingAlarms + cleanupLog["alarm"] = 2

(***************************************************************************)
(* Claims about the dedup map                                              *)
(***************************************************************************)
\* request r runs cleanupCache in this step: it is admitted, or refused as a duplicate
RunsCleanupCache(r) ==
    /\ request[r].pc = "new"
    /\ \/ request'[r].pc = "base"
       \/ request'[r].response.errorType = "duplicate"

\* the keys of the map whose entries are not older than the TTL at this instant
Live == {k \in DOMAIN requestCache : now - requestCache[k] <= CACHE_DURATION}

\* C25: the dedup map never holds more than cap + 1 entries.  Every cleanupCache call
\* drops the entries older than the TTL and keeps the others as they are; when more than
\* cap of them are left it evicts floor(0.2 x cap) entries, none newer than one it
\* keeps, so that at most cap are left before the request sets its own entry.
C25_MapIsBounded ==
    /\ [](Cardinality(DOMAIN requestCache) <= MAX_CACHE_SIZE + 1)
    /\ [][\A r \in Requests :
             RunsCleanupCache(r) =>
                LET key == cacheKey(request[r].form)
                    others == DOMAIN requestCache' \ {key}
                    gone == Live \ DOMAIN requestCache'
                    evicted == MAX_CACHE_SIZE \div 5
                IN  /\ others \subseteq Live
                    /\ \A k \in others : requestCache'[k] = requestCache[k]
                    /\ Cardinality(others) <= MAX_CACHE_SIZE
                    /\ (request'[r].pc = "base" => requestCache'[key] = now)
                    /\ (request'[r].pc # "base" => requestCache'[key] = requestCache[key])
                    /\ IF Cardinality(Live) > MAX_CACHE_SIZE
                       THEN /\ Cardinality(gone) \in {evicted - 1, evicted}
                            /\ \A e \in gone, k \in others : requestCache[e] <= requestCache[k]
                       ELSE gone = {}]_vars

\* a request was admitted while cap + 1 entries were live: a fifth of the cap is gone
C25_Witness ==
    /\ \E r \in Requests : request[r].pc = "base"
    /\ Cardinality(DOMAIN requestCache) = MAX_CACHE_SIZE - (MAX_CACHE_SIZE \div 5) + 2

(***************************************************************************)
(* Claims about the summary of the frequent sweep                          *)
(***************************************************************************)
\* C26: every frequent sweep that took its snapshot returns through its summary write:
\* one cleanup_run entry (when the store takes it) for the empty snapshot, or one after
\* the batch with checked = deleted + errors and checked the size of the batch, also
\* when an item or a store operation of the sweep failed.
C26_OneSummaryPerSweep ==
    [][SweepReturns =>
          /\ pc["sweep"] \in {"log_empty", "summary"}
          /\ (faults' = faults
                => cleanupLog' = [cleanupLog EXCEPT !["cleanup_run"] = @ + 1])
          /\ (pc["sweep"] = "log_empty" => batch["sweep"] = <<>>)
          /\ (pc["sweep"] = "summary"
                => /\ stats["sweep"].checked = Len(batch["sweep"])
                   /\ stats["sweep"].checked
                         = stats["sweep"].deleted + stats["sweep"].errors)]_vars

(***************************************************************************)
(* Claims about deleteTemporaryVariant and its record                      *)
(***************************************************************************)
\* pass p issues admin.delete for the variant of its item in this step
IssuesDelete(p) == pc[p] = "get" /\ pc'[p] = "delete"

\* C27: the Reconciler issues no catalog delete for a record that is ordered at the
\* moment the call is made, also when the order was placed after the sweep took its
\* snapshot and before the sweep reached the record.
C27_NoDeleteOnceOrdered ==
    [][\A p \in Procs :
          IssuesDelete(p) => ~temporaryProduct[Item(p)].isOrdered]_vars

\* the catalog variant of record i
VariantOf(i) == variants[temporaryProduct[i].variantId]

\* C28: a record whose deletedAt is set has no variant in the catalog, in every state;
\* deletedAt is written only by a pass standing at the store write of that record, which
\* it reaches when the read or the delete answered 404 or the delete succeeded, so the
\* variant is gone by then, and not after another failure or a missing session.
C28_DeletedMeansAbsent ==
    /\ [](\A i \in RowIds : temporaryProduct[i].deletedAt # NULL => ~VariantOf(i).alive)
    /\ [][\A i \in RowIds :
             temporaryProduct'[i].deletedAt # temporaryProduct[i].deletedAt
             => /\ ~VariantOf(i).alive
                /\ faults' = faults
                /\ \E p \in Procs : pc[p] = "mark" /\ Item(p) = i /\ pc'[p] # "mark"]_vars

\* one record is marked deleted and its variant is gone, another one failed with
\* something else than a 404 and keeps its variant and its null deletedAt
C28_Witness ==
    \E i, j \in RowIds :
        /\ temporaryProduct[i].deletedAt # NULL
        /\ ~VariantOf(i).alive
        /\ temporaryProduct[j].cleanupAttempts > 0
        /\ temporaryProduct[j].deletedAt = NULL
        /\ VariantOf(j).alive

====
